---- MODULE Spec2Model ----
(***************************************************************************)
(* Model of ascvd_calculator_pro.py: the 10-year ASCVD risk pipeline       *)
(*   calculate_ascvd_risk -> adjust_risk -> get_risk_category              *)
(* and the Streamlit script that runs it from the input widgets.           *)
(*                                                                         *)
(* Python floats are modelled as fixed-point integers with four decimal    *)
(* digits: the float v is the integer v * Scale (8.56 is 85600, 0.9144 is  *)
(* 9144, 2.0 is 20000).  Python ints (age, cholesterol, blood pressure,    *)
(* CAC score) are plain integers.                                          *)
(***************************************************************************)
EXTENDS Integers, Sequences, FiniteSets, TLC

VARIABLES
    age, sex, race, total_cholesterol, hdl_cholesterol, systolic_bp,
    bp_treated, diabetes, smoker,           \* patient inputs (lines 16-24)
    family_history, hs_crp, cac_score,      \* advanced risk factors (27-29)
    coeffs,                                 \* coefficient list selected (35-44)
    risk,                                   \* result of calculate_ascvd_risk
    final_risk,                             \* result of adjust_risk
    risk_category, color,                   \* result of get_risk_category
    pc                                      \* where the run of the code stands

vars == <<age, sex, race, total_cholesterol, hdl_cholesterol, systolic_bp,
          bp_treated, diabetes, smoker, family_history, hs_crp, cac_score,
          coeffs, risk, final_risk, risk_category, color, pc>>

profile == <<age, sex, race, total_cholesterol, hdl_cholesterol, systolic_bp,
             bp_treated, diabetes, smoker>>
markers == <<family_history, hs_crp, cac_score>>
results == <<coeffs, risk, final_risk, risk_category, color>>

-----------------------------------------------------------------------------
(* Fixed-point floats *)

\* One unit of a float: 1.0
Scale == 10000

\* the float of a decimal literal with two decimals, given in hundredths
Cents(n) == n * (Scale \div 100)

\* a * b on floats.  Both factors are split so that no partial product
\* leaves the 32-bit range; the result is floor(a * b / Scale) exactly.
Mul(a, b) ==
    LET qa == a \div Scale
        ra == a % Scale
        qb == b \div Scale
        rb == b % Scale
    IN  qa * qb * Scale + qa * rb + ra * qb + (ra * rb) \div Scale

\* ln(m) for 1.0 <= m < 2.0:  2 * atanh((m - 1) / (m + 1)), four terms
LnSeries(m) ==
    LET z  == ((m - Scale) * Scale) \div (m + Scale)
        z2 == Mul(z, z)
        z3 == Mul(z, z2)
        z5 == Mul(z3, z2)
        z7 == Mul(z5, z2)
    IN  2 * (z + z3 \div 3 + z5 \div 5 + z7 \div 7)

\* ln(x * 2^k) for a float x > 0:  halve or double x into [1.0, 2.0)
RECURSIVE LnRed(_, _)
LnRed(x, k) ==
    IF x >= 2 * Scale THEN LnRed(x \div 2, k + 1)
    ELSE IF x < Scale THEN LnRed(2 * x, k - 1)
    ELSE k * 6931 + LnSeries(x)

\* natural logarithm of a float x > 0
Ln(x) == LnRed(x, 0)

\* e^x for a float x.  exp(0.0) is exactly 1.0.  The fixed-point range ends
\* near e^6, so larger arguments saturate; calculate_ascvd_risk passes 0.0.
RECURSIVE ExpRed(_)
ExpRed(x) ==
    IF x > Scale \div 2 \/ x < -(Scale \div 2)
    THEN LET h == ExpRed(x \div 2) IN Mul(h, h)
    ELSE LET x2 == Mul(x, x)
             x3 == Mul(x2, x)
             x4 == Mul(x3, x)
         IN  Scale + x + x2 \div 2 + x3 \div 6 + x4 \div 24

Exp(x) ==
    IF x > 6 * Scale THEN ExpRed(6 * Scale)
    ELSE IF x < -(6 * Scale) THEN ExpRed(-(6 * Scale))
    ELSE ExpRed(x)

\* b ** e for floats, b > 0.  As in IEEE pow, b ** 1.0 is b and b ** 0.0 is
\* 1.0 exactly; otherwise e^(e * ln b).
Pow(b, e) ==
    IF e = Scale THEN b
    ELSE IF e = 0 THEN Scale
    ELSE Exp(Mul(e, Ln(b)))

\* round(x, 2): the nearest multiple of 0.01, an exact half going to the
\* even neighbour.  Every value the program rounds lies within 0.005 of a
\* multiple of 0.01, so no half is ever rounded.
Round2(x) ==
    LET u == Scale \div 100
        q == x \div u
        r == x % u
    IN  IF 2 * r < u THEN q * u
        ELSE IF 2 * r > u THEN (q + 1) * u
        ELSE IF q % 2 = 0 THEN q * u ELSE (q + 1) * u

\* max(a, b)
Max(a, b) == IF a >= b THEN a ELSE b

\* a Python list, indexed from 0
List(s) == [i \in 0..(Len(s) - 1) |-> s[i + 1]]

-----------------------------------------------------------------------------
(* calculate_ascvd_risk *)

WhiteMale   == List(<<123440, 118530, -79900, 17970, 17640, 78370, 6580, 9144>>)
WhiteFemale == List(<<-297990, 135400, -135780, 20190, 19570, 75740, 6610, 9665>>)
BlackMale   == List(<<24690, 3020, -3070, 19160, 18090, 5490, 6450, 8954>>)
BlackFemale == List(<<171140, 9400, -189200, 292910, 278200, 6910, 8740, 9533>>)

\* faulty variant: the final else falls back to the set of the patient's sex
SelectCoeffs_BySex(r, s) ==
    IF r = "white" /\ s = "male" THEN WhiteMale
    ELSE IF r = "white" /\ s = "female" THEN WhiteFemale
    ELSE IF r = "black" /\ s = "male" THEN BlackMale
    ELSE IF r = "black" /\ s = "female" THEN BlackFemale
    ELSE IF s = "female" THEN WhiteFemale ELSE WhiteMale

\* the if / elif chain on (race, sex); the final else is the white-male list
SelectCoeffs(r, s) ==
    IF r = "white" /\ s = "male" THEN WhiteMale
    ELSE IF r = "white" /\ s = "female" THEN WhiteFemale
    ELSE IF r = "black" /\ s = "male" THEN BlackMale
    ELSE IF r = "black" /\ s = "female" THEN BlackFemale
    ELSE WhiteMale

\* faulty variant: only a negative argument is rejected
math_log_NegativeOnly(x) ==
    IF x < 0 THEN [raised |-> TRUE, value |-> 0]
    ELSE [raised |-> FALSE, value |-> IF x = 0 THEN 0 ELSE Ln(x * Scale)]

\* math.log of an int: ValueError (math domain error) unless x > 0
math_log(x) ==
    IF x <= 0 THEN [raised |-> TRUE, value |-> 0]
    ELSE [raised |-> FALSE, value |-> Ln(x * Scale)]

\* faulty variant: the exponent is the distance of sum_terms from a cohort mean
\* (61.18) instead of its distance from itself
RiskFraction_MeanCentred(baseline_survival, sum_terms) ==
    Scale - Pow(baseline_survival, Exp(sum_terms - 611800))

\* risk = 1 - (baseline_survival ** math.exp(sum_terms - sum_terms))
RiskFraction(baseline_survival, sum_terms) ==
    Scale - Pow(baseline_survival, Exp(sum_terms - sum_terms))

\* The call calculate_ascvd_risk(a, s, r, tc, hdl, sbp, treated, diab, smk):
\* raised is TRUE when one of the four math.log calls raises ValueError,
\* otherwise value is the float returned.
calculate_ascvd_risk(a, s, r, tc, hdl, sbp, treated, diab, smk) ==
    LET c             == SelectCoeffs(r, s)
        ln_age        == math_log(a)
        ln_total_chol == math_log(tc)
        ln_hdl        == math_log(hdl)
        ln_sbp        == math_log(sbp)
    IN  IF ln_age.raised \/ ln_total_chol.raised \/ ln_hdl.raised \/ ln_sbp.raised
        THEN [raised |-> TRUE, value |-> 0]
        ELSE
          LET sbp_term      == IF treated THEN Mul(c[3], ln_sbp.value)
                                          ELSE Mul(c[4], ln_sbp.value)
              smoker_term   == IF smk THEN c[5] ELSE 0
              diabetes_term == IF diab THEN c[6] ELSE 0
              baseline_survival == c[7]
              sum_terms     == Mul(c[0], ln_age.value)
                               + Mul(c[1], ln_total_chol.value)
                               + Mul(c[2], ln_hdl.value)
                               + sbp_term + smoker_term + diabetes_term
              rsk           == RiskFraction(baseline_survival, sum_terms)
          IN  [raised |-> FALSE, value |-> Round2(Mul(rsk, 100 * Scale))]

-----------------------------------------------------------------------------
(* adjust_risk *)

\* faulty variant: a typo, 20 instead of 2
AdjFamily_Twenty(adjusted_risk, fh) ==
    IF fh THEN adjusted_risk + 20 * Scale ELSE adjusted_risk

\* if family_history: adjusted_risk += 2
AdjFamily(adjusted_risk, fh) ==
    IF fh THEN adjusted_risk + 2 * Scale ELSE adjusted_risk

\* faulty variant: >= instead of >
AdjCrp_AtLeast(adjusted_risk, crp) ==
    IF crp >= 2 * Scale THEN adjusted_risk + Scale ELSE adjusted_risk

\* if hs_crp > 2.0: adjusted_risk += 1
AdjCrp(adjusted_risk, crp) ==
    IF crp > 2 * Scale THEN adjusted_risk + Scale ELSE adjusted_risk

\* faulty variant: the subtraction without the floor
AdjCac_NoFloor(adjusted_risk, cac) ==
    IF cac > 100 THEN adjusted_risk + 5 * Scale
    ELSE IF cac = 0 THEN adjusted_risk - 5 * Scale
    ELSE adjusted_risk

\* faulty variant: 5 is subtracted only from a risk of at least 5
AdjCac_SkipSmall(adjusted_risk, cac) ==
    IF cac > 100 THEN adjusted_risk + 5 * Scale
    ELSE IF cac = 0
         THEN IF adjusted_risk >= 5 * Scale THEN adjusted_risk - 5 * Scale
                                            ELSE adjusted_risk
    ELSE adjusted_risk

\* faulty variant: >= 100 instead of > 100
AdjCac_From100(adjusted_risk, cac) ==
    IF cac >= 100 THEN adjusted_risk + 5 * Scale
    ELSE IF cac = 0 THEN Max(adjusted_risk - 5 * Scale, 0)
    ELSE adjusted_risk

\* if cac_score > 100: += 5   elif cac_score == 0: max(adjusted_risk - 5, 0)
AdjCac(adjusted_risk, cac) ==
    IF cac > 100 THEN adjusted_risk + 5 * Scale
    ELSE IF cac = 0 THEN Max(adjusted_risk - 5 * Scale, 0)
    ELSE adjusted_risk

\* faulty variant: the hs-CRP step is left out
adjust_risk_NoCrp(rsk, fh, crp, cac) ==
    Round2(AdjCac(AdjFamily(rsk, fh), cac))

\* the three steps in the order of the code, then round(adjusted_risk, 2)
adjust_risk(rsk, fh, crp, cac) ==
    Round2(AdjCac(AdjCrp(AdjFamily(rsk, fh), crp), cac))

-----------------------------------------------------------------------------
(* get_risk_category *)

LowRisk          == <<"Low Risk (<5%)", "green">>
BorderlineRisk   == <<"Borderline Risk (5-7.5%)", "yellow">>
IntermediateRisk == <<"Intermediate Risk (7.5-20%)", "orange">>
HighRisk         == <<"High Risk (>=20%)", "red">>

\* faulty variant: the bands are closed on the right instead of the left
get_risk_category_ClosedRight(rsk) ==
    IF rsk <= 5 * Scale THEN LowRisk
    ELSE IF rsk <= 75 * (Scale \div 10) THEN BorderlineRisk
    ELSE IF rsk <= 20 * Scale THEN IntermediateRisk
    ELSE HighRisk

\* the if / elif chain; 7.5 is 75 tenths
get_risk_category(rsk) ==
    IF rsk < 5 * Scale THEN LowRisk
    ELSE IF 5 * Scale <= rsk /\ rsk < 75 * (Scale \div 10) THEN BorderlineRisk
    ELSE IF 75 * (Scale \div 10) <= rsk /\ rsk < 20 * Scale THEN IntermediateRisk
    ELSE HighRisk

-----------------------------------------------------------------------------
(* The Streamlit script: the widgets and the button handler *)

\* values offered by the widgets: every option of each selectbox; of each
\* number_input the default and one or both ends of its range
AgeValues   == {40, 55, 79}
SexValues   == {"male", "female"}
RaceValues  == {"white", "black", "other"}
CholValues  == {200, 400}
HdlValues   == {20, 50}
SbpValues   == {130, 200}
\* hs-CRP 0.0, 2.0 and 3.0 mg/L
CrpValues   == {0, 2 * Scale, 3 * Scale}
CacValues   == {0, 100, 150}

NoCoeffs == List(<<>>)

\* nothing is computed or shown by a run of the script without the button
NoResults ==
    /\ coeffs' = NoCoeffs
    /\ risk' = 0
    /\ final_risk' = 0
    /\ risk_category' = ""
    /\ color' = ""
    /\ pc' = "idle"

Init ==
    /\ age = 55 /\ sex = "male" /\ race = "white"
    /\ total_cholesterol = 200 /\ hdl_cholesterol = 50 /\ systolic_bp = 130
    /\ bp_treated = FALSE /\ diabetes = FALSE /\ smoker = FALSE
    /\ family_history = FALSE /\ hs_crp = 0 /\ cac_score = 0
    /\ coeffs = NoCoeffs /\ risk = 0 /\ final_risk = 0
    /\ risk_category = "" /\ color = "" /\ pc = "idle"

\* a widget gets a new value: the script is run again, the button not pressed
SetAge ==
    /\ \E v \in AgeValues \ {age} : age' = v
    /\ NoResults
    /\ UNCHANGED <<sex, race, total_cholesterol, hdl_cholesterol, systolic_bp,
                   bp_treated, diabetes, smoker, markers>>

SetSex ==
    /\ \E v \in SexValues \ {sex} : sex' = v
    /\ NoResults
    /\ UNCHANGED <<age, race, total_cholesterol, hdl_cholesterol, systolic_bp,
                   bp_treated, diabetes, smoker, markers>>

SetRace ==
    /\ \E v \in RaceValues \ {race} : race' = v
    /\ NoResults
    /\ UNCHANGED <<age, sex, total_cholesterol, hdl_cholesterol, systolic_bp,
                   bp_treated, diabetes, smoker, markers>>

SetTotalCholesterol ==
    /\ \E v \in CholValues \ {total_cholesterol} : total_cholesterol' = v
    /\ NoResults
    /\ UNCHANGED <<age, sex, race, hdl_cholesterol, systolic_bp,
                   bp_treated, diabetes, smoker, markers>>

SetHdlCholesterol ==
    /\ \E v \in HdlValues \ {hdl_cholesterol} : hdl_cholesterol' = v
    /\ NoResults
    /\ UNCHANGED <<age, sex, race, total_cholesterol, systolic_bp,
                   bp_treated, diabetes, smoker, markers>>

SetSystolicBp ==
    /\ \E v \in SbpValues \ {systolic_bp} : systolic_bp' = v
    /\ NoResults
    /\ UNCHANGED <<age, sex, race, total_cholesterol, hdl_cholesterol,
                   bp_treated, diabetes, smoker, markers>>

SetBpTreated ==
    /\ bp_treated' = ~bp_treated
    /\ NoResults
    /\ UNCHANGED <<age, sex, race, total_cholesterol, hdl_cholesterol,
                   systolic_bp, diabetes, smoker, markers>>

SetDiabetes ==
    /\ diabetes' = ~diabetes
    /\ NoResults
    /\ UNCHANGED <<age, sex, race, total_cholesterol, hdl_cholesterol,
                   systolic_bp, bp_treated, smoker, markers>>

SetSmoker ==
    /\ smoker' = ~smoker
    /\ NoResults
    /\ UNCHANGED <<age, sex, race, total_cholesterol, hdl_cholesterol,
                   systolic_bp, bp_treated, diabetes, markers>>

SetFamilyHistory ==
    /\ family_history' = ~family_history
    /\ NoResults
    /\ UNCHANGED <<profile, hs_crp, cac_score>>

SetHsCrp ==
    /\ \E v \in CrpValues \ {hs_crp} : hs_crp' = v
    /\ NoResults
    /\ UNCHANGED <<profile, family_history, cac_score>>

SetCacScore ==
    /\ \E v \in CacValues \ {cac_score} : cac_score' = v
    /\ NoResults
    /\ UNCHANGED <<profile, family_history, hs_crp>>

\* the button "Calculate and Generate Report": the three calls in a row; an
\* exception of the first ends the run before anything is assigned
Calculate ==
    LET r == calculate_ascvd_risk(age, sex, race, total_cholesterol,
                                  hdl_cholesterol, systolic_bp, bp_treated,
                                  diabetes, smoker)
        f == adjust_risk(r.value, family_history, hs_crp, cac_score)
        c == get_risk_category(f)
    IN  /\ coeffs' = SelectCoeffs(race, sex)
        /\ IF r.raised
           THEN /\ pc' = "raised"
                /\ risk' = 0 /\ final_risk' = 0
                /\ risk_category' = "" /\ color' = ""
           ELSE /\ pc' = "done"
                /\ risk' = r.value
                /\ final_risk' = f
                /\ risk_category' = c[1]
                /\ color' = c[2]
        /\ UNCHANGED <<profile, markers>>

Next ==
    \/ SetAge \/ SetSex \/ SetRace
    \/ SetTotalCholesterol \/ SetHdlCholesterol \/ SetSystolicBp
    \/ SetBpTreated \/ SetDiabetes \/ SetSmoker
    \/ SetFamilyHistory \/ SetHsCrp \/ SetCacScore
    \/ Calculate

Spec == Init /\ [][Next]_vars

-----------------------------------------------------------------------------
(* calculate_ascvd_risk called on arguments of its whole domain *)

\* ints around zero and at the ends of the widgets' ranges
AgeArgs  == {-1, 0, 1, 40, 79}
CholArgs == {-1, 0, 1, 100, 400}
HdlArgs  == {-5, 0, 20, 100}
SbpArgs  == {-90, 0, 90, 200}
\* the lookup is an exact string comparison
RaceArgs == {"white", "black", "other", "asian", "White"}

InitEstimate ==
    /\ age \in AgeArgs /\ sex \in SexValues /\ race \in RaceArgs
    /\ total_cholesterol \in CholArgs /\ hdl_cholesterol \in HdlArgs
    /\ systolic_bp \in SbpArgs
    /\ bp_treated \in BOOLEAN /\ diabetes \in BOOLEAN /\ smoker \in BOOLEAN
    /\ family_history = FALSE /\ hs_crp = 0 /\ cac_score = 0
    /\ coeffs = NoCoeffs /\ risk = 0 /\ final_risk = 0
    /\ risk_category = "" /\ color = "" /\ pc = "args"

CallCalculate ==
    /\ pc = "args"
    /\ LET r == calculate_ascvd_risk(age, sex, race, total_cholesterol,
                                     hdl_cholesterol, systolic_bp, bp_treated,
                                     diabetes, smoker)
       IN  /\ coeffs' = SelectCoeffs(race, sex)
           /\ risk' = r.value
           /\ pc' = IF r.raised THEN "raised" ELSE "returned"
    /\ UNCHANGED <<profile, markers, final_risk, risk_category, color>>

NextEstimate == CallCalculate

SpecEstimate == InitEstimate /\ [][NextEstimate]_vars

-----------------------------------------------------------------------------
(* adjust_risk, then get_risk_category, called on any baseline risk *)

\* quarters of a percent up to MaxRiskQuarters / 4
MaxRiskQuarters == 48
\* CAC scores 0 .. MaxCac
MaxCac == 102

\* baseline risks: the quarter grid, the four cohort baselines and the
\* neighbours of 5.00
RiskArgs ==
    {Cents(25 * k) : k \in 0..MaxRiskQuarters}
        \cup {Cents(c) : c \in {335, 467, 856, 1046, 499, 501}}

CrpArgs == {0, 2 * Scale, Cents(201), 3 * Scale}

InitAdjust ==
    /\ age = 55 /\ sex = "male" /\ race = "white"
    /\ total_cholesterol = 200 /\ hdl_cholesterol = 50 /\ systolic_bp = 130
    /\ bp_treated = FALSE /\ diabetes = FALSE /\ smoker = FALSE
    /\ family_history \in BOOLEAN /\ hs_crp \in CrpArgs
    /\ cac_score \in 0..MaxCac
    /\ coeffs = NoCoeffs /\ risk \in RiskArgs /\ final_risk = 0
    /\ risk_category = "" /\ color = "" /\ pc = "args"

CallAdjustRisk ==
    /\ pc = "args"
    /\ final_risk' = adjust_risk(risk, family_history, hs_crp, cac_score)
    /\ pc' = "adjusted"
    /\ UNCHANGED <<profile, markers, coeffs, risk, risk_category, color>>

CallGetRiskCategory ==
    /\ pc = "adjusted"
    /\ LET c == get_risk_category(final_risk)
       IN  risk_category' = c[1] /\ color' = c[2]
    /\ pc' = "classified"
    /\ UNCHANGED <<profile, markers, coeffs, risk, final_risk>>

NextAdjust == CallAdjustRisk \/ CallGetRiskCategory

SpecAdjust == InitAdjust /\ [][NextAdjust]_vars

-----------------------------------------------------------------------------
(* get_risk_category called on any risk *)

\* risks -1.000 .. MaxRiskMilli / 1000 in steps of 0.001
MaxRiskMilli == 25000

InitClassify ==
    /\ age = 55 /\ sex = "male" /\ race = "white"
    /\ total_cholesterol = 200 /\ hdl_cholesterol = 50 /\ systolic_bp = 130
    /\ bp_treated = FALSE /\ diabetes = FALSE /\ smoker = FALSE
    /\ family_history = FALSE /\ hs_crp = 0 /\ cac_score = 0
    /\ coeffs = NoCoeffs /\ risk = 0
    /\ final_risk \in {k * (Scale \div 1000) : k \in (-1000)..MaxRiskMilli}
    /\ risk_category = "" /\ color = "" /\ pc = "adjusted"

NextClassify == CallGetRiskCategory

SpecClassify == InitClassify /\ [][NextClassify]_vars

-----------------------------------------------------------------------------
(* Properties *)

\* adjust_risk has returned
Adjusted == pc \in {"adjusted", "classified"}

\* C1: for every valid profile the button handler's baseline risk is
\* round((1 - coeff[7]) * 100, 2) of the cohort selected by (race, sex):
\* 8.56 white male (and any other race), 3.35 white female, 10.46 black
\* male, 4.67 black female, whatever the age, cholesterol, HDL, blood
\* pressure, treatment, smoking and diabetes are; the call never raises.
C1_BaselineIsCohortConstant ==
    /\ pc # "raised"
    /\ pc = "done" =>
         /\ risk = Round2(Mul(Scale - coeffs[7], 100 * Scale))
         /\ risk = IF race = "white" /\ sex = "male" THEN Cents(856)
                   ELSE IF race = "white" /\ sex = "female" THEN Cents(335)
                   ELSE IF race = "black" /\ sex = "male" THEN Cents(1046)
                   ELSE IF race = "black" /\ sex = "female" THEN Cents(467)
                   ELSE Cents(856)

C1_Witness ==
    /\ pc = "done" /\ race = "black" /\ sex = "female"
    /\ age = 79 /\ total_cholesterol = 400 /\ hdl_cholesterol = 20
    /\ systolic_bp = 200 /\ bp_treated /\ diabetes /\ smoker
    /\ risk = Cents(467)

\* C2: the coefficient list is chosen by exact (race, sex) match: a race
\* other than "white" and "black" gets the white-male list for both sexes
\* (baseline 8.56), and the four (race, sex) pairs of white and black get
\* four different lists, each its own.
C2_ExactLookupWithWhiteMaleFallback ==
    pc \in {"returned", "raised"} =>
      /\ race \notin {"white", "black"} =>
           /\ coeffs = List(<<123440, 118530, -79900, 17970, 17640, 78370,
                              6580, 9144>>)
           /\ coeffs = SelectCoeffs("white", "male")
           /\ pc = "returned" => risk = Cents(856)
      /\ race \in {"white", "black"} =>
           /\ coeffs[7] = IF race = "white"
                          THEN (IF sex = "male" THEN 9144 ELSE 9665)
                          ELSE (IF sex = "male" THEN 8954 ELSE 9533)
           /\ \A r \in {"white", "black"}, s \in {"male", "female"} :
                <<r, s>> # <<race, sex>> => SelectCoeffs(r, s) # coeffs

C2_Witness ==
    /\ pc = "returned" /\ race = "other" /\ sex = "female"
    /\ coeffs[7] = 9144 /\ risk = Cents(856)

\* C3: get_risk_category puts every risk in exactly one half-open band:
\* below 5 Low/green, from 5 below 7.5 Borderline/yellow, from 7.5 below 20
\* Intermediate/orange, from 20 High/red; 5.0, 7.5 and 20.0 open their band
\* and 4.99, 7.49 and 19.99 close the one before.
C3_HalfOpenBands ==
    pc = "classified" =>
      LET got == <<risk_category, color>>
          low  == <<"Low Risk (<5%)", "green">>
          bord == <<"Borderline Risk (5-7.5%)", "yellow">>
          intm == <<"Intermediate Risk (7.5-20%)", "orange">>
          high == <<"High Risk (>=20%)", "red">>
      IN  /\ final_risk < 50000 => got = low
          /\ 50000 <= final_risk /\ final_risk < 75000 => got = bord
          /\ 75000 <= final_risk /\ final_risk < 200000 => got = intm
          /\ 200000 <= final_risk => got = high
          /\ got \in {low, bord, intm, high}
          /\ final_risk \in {49900, 49990} => got = low
          /\ final_risk = 74900 => got = bord
          /\ final_risk \in {199900, 199990} => got = intm

C3_Witness ==
    /\ pc = "classified" /\ final_risk = 5 * Scale
    /\ risk_category = "Borderline Risk (5-7.5%)" /\ color = "yellow"

\* C4: with cacScore 0, no family history and hsCRP not above 2.0,
\* adjust_risk returns max(r - 5, 0): r - 5 from r = 5 on, 0 below; the
\* baseline 8.56 gives 3.56, Low Risk / green.
C4_CacZeroSubtractsFiveFlooredAtZero ==
    Adjusted /\ cac_score = 0 /\ ~family_history
             /\ hs_crp <= 2 * Scale =>
      /\ final_risk = IF risk >= 5 * Scale THEN risk - 5 * Scale ELSE 0
      /\ risk = Cents(856) /\ pc = "classified" =>
           /\ final_risk = Cents(356)
           /\ risk_category = "Low Risk (<5%)" /\ color = "green"

C4_Witness ==
    /\ pc = "classified" /\ cac_score = 0 /\ ~family_history
    /\ hs_crp = 2 * Scale /\ risk = Cents(467) /\ final_risk = 0
    /\ color = "green"

\* what family history and hs-CRP add to a baseline risk
OtherMarkers ==
    (IF family_history THEN 2 * Scale ELSE 0)
        + (IF hs_crp > 2 * Scale THEN Scale ELSE 0)

\* C5: a cacScore of 1 .. 100 takes neither CAC branch: the result is what
\* the other markers alone give, and the baseline itself when there are
\* none; +5 applies exactly from 101 on and the floored -5 exactly at 0.
C5_CacBranchesExclusive ==
    Adjusted =>
      /\ cac_score \in 1..100 =>
           /\ final_risk = risk + OtherMarkers
           /\ ~family_history /\ hs_crp <= 2 * Scale => final_risk = risk
      /\ cac_score > 100 => final_risk = risk + OtherMarkers + 5 * Scale
      /\ cac_score = 0 =>
           final_risk = Max(risk + OtherMarkers - 5 * Scale, 0)

C5_Witness ==
    /\ pc = "adjusted" /\ cac_score = 100 /\ family_history
    /\ hs_crp = 3 * Scale /\ risk = Cents(856) /\ final_risk = Cents(1156)

\* the three adjustment steps, and their six orders
Step(i, a) ==
    CASE i = 1 -> AdjFamily(a, family_history)
      [] i = 2 -> AdjCrp(a, hs_crp)
      [] i = 3 -> AdjCac(a, cac_score)

Orders == {o \in [1..3 -> 1..3] : {o[1], o[2], o[3]} = 1..3}

ApplyOrder(o, r) == Round2(Step(o[3], Step(o[2], Step(o[1], r))))

\* C6 as stated: whatever the baseline and the markers, every order of the
\* three adjustments gives the result of adjust_risk.
C6_AnyOrderSameResult ==
    Adjusted =>
      \A o \in Orders : ApplyOrder(o, risk) = final_risk

\* C6 amended: every order of the three adjustments gives the result of
\* adjust_risk when cacScore is not 0, or the baseline is at least 5, or
\* neither family history nor hsCRP > 2.0 adds anything.
C6_AnyOrderSameResultUnlessFloored ==
    Adjusted /\ (cac_score # 0 \/ risk >= 5 * Scale \/ OtherMarkers = 0) =>
      \A o \in Orders : ApplyOrder(o, risk) = final_risk

C6_Witness ==
    /\ pc = "adjusted" /\ cac_score = 0 /\ risk = Cents(856)
    /\ family_history /\ hs_crp = 3 * Scale /\ final_risk = Cents(656)
    /\ ApplyOrder([i \in 1..3 |-> 4 - i], risk) = Cents(656)

\* C7: calculate_ascvd_risk raises, and returns nothing, exactly when one
\* of age, total cholesterol, HDL and systolic BP is <= 0.
C7_DomainErrorIffNonPositive ==
    pc \in {"returned", "raised"} =>
      /\ pc = "raised" <=>
           \/ age <= 0 \/ total_cholesterol <= 0
           \/ hdl_cholesterol <= 0 \/ systolic_bp <= 0
      /\ pc = "raised" => risk = 0
      /\ pc = "returned" => risk > 0

C7_Witness ==
    /\ pc = "raised" /\ age = 40 /\ total_cholesterol = 100
    /\ hdl_cholesterol = 0 /\ systolic_bp = 90

\* C8: the adjusted risk of every result of the pipeline is at least 0;
\* the -5 of cacScore 0 stops at 0.
C8_AdjustedRiskNeverNegative ==
    pc = "done" => final_risk >= 0

C8_Witness ==
    /\ pc = "done" /\ cac_score = 0 /\ risk = Cents(335)
    /\ ~family_history /\ final_risk = 0

\* C9: with cacScore > 100 the pipeline's adjusted risk is the baseline,
\* + 2 with family history, + 1 with hsCRP strictly above 2.0, + 5, and its
\* category is that value's band; white male, family history, hsCRP 3.0,
\* cacScore 150: 8.56, 16.56, Intermediate Risk, orange.
C9_HighCacAddsFive ==
    pc = "done" /\ cac_score > 100 =>
      /\ final_risk = risk + (IF family_history THEN 2 * Scale ELSE 0)
                           + (IF hs_crp > 2 * Scale THEN Scale ELSE 0)
                           + 5 * Scale
      /\ hs_crp = 2 * Scale /\ ~family_history => final_risk = risk + 5 * Scale
      /\ color = IF final_risk < 50000 THEN "green"
                 ELSE IF final_risk < 75000 THEN "yellow"
                 ELSE IF final_risk < 200000 THEN "orange" ELSE "red"
      /\ race = "white" /\ sex = "male" /\ family_history
           /\ hs_crp = 3 * Scale /\ cac_score = 150 =>
           /\ risk = Cents(856) /\ final_risk = Cents(1656)
           /\ risk_category = "Intermediate Risk (7.5-20%)"
           /\ color = "orange"

C9_Witness ==
    /\ pc = "done" /\ race = "white" /\ sex = "male" /\ family_history
    /\ hs_crp = 3 * Scale /\ cac_score = 150 /\ final_risk = Cents(1656)

\* C10: every adjusted risk the button handler shows lies in [0, 18.46],
\* inside the chart's 0 .. 30 axis, and is never High Risk / red.
C10_PipelineNeverHigh ==
    pc = "done" =>
      /\ 0 <= final_risk /\ final_risk <= Cents(1846)
      /\ final_risk <= 30 * Scale
      /\ risk_category \in {"Low Risk (<5%)", "Borderline Risk (5-7.5%)",
                            "Intermediate Risk (7.5-20%)"}
      /\ color \in {"green", "yellow", "orange"}

C10_Witness ==
    /\ pc = "done" /\ final_risk = Cents(1846) /\ color = "orange"
    /\ race = "black" /\ sex = "male"

====
